---- MODULE Spec2Model ----
(***************************************************************************)
(* Payment-gated media generation MCP server                               *)
(* (nevermined-io/image-video-generation-mcp).                             *)
(*                                                                         *)
(* Two specifications share this module:                                   *)
(*   Spec     the tool handlers of the server: every dispatched tool       *)
(*            invocation advances one awaited call at a time, so           *)
(*            invocations interleave at their awaits.                      *)
(*   SpecOps  the operations of PaymentsManager, VideoService and          *)
(*            downloadAsBase64 called on their own, with the answer of     *)
(*            the payment service, the generation backend or the media     *)
(*            host drawn from bounded sets and kept next to the outcome.   *)
(* The operations are operators over the answer of the external party;     *)
(* the handlers of Spec apply the same operators.                          *)
(***************************************************************************)
EXTENDS Integers, Sequences, FiniteSets, TLC

VARIABLES
    build,      \* which entry point the process runs: "mcp" or "manager"
    task,       \* task[i]: the tool invocation in slot i
    call,       \* SpecOps: the operation last called, with the answers it got
    outcome,    \* SpecOps: what that operation returned or threw
    process,    \* the server process: "loading", "running" or "exited"
    manager     \* the statics of PaymentsManager and the fields of its instance

vars == <<build, task, call, outcome, process, manager>>
toolVars == <<build, task>>
opsVars == <<call, outcome>>
procVars == <<process, manager>>

(***************************************************************************)
(* Bounds of the model.                                                    *)
(***************************************************************************)
MaxInvocations == 2
MaxCredits == 2
Slack == 1

(***************************************************************************)
(* Configuration.                                                          *)
(***************************************************************************)
PLAN_DID == "did:nv:bbc5556a932bdeb88bbe45045530e491ad428b351fb43c8bd4be04dba7878a3d"
AGENT_DID == "did:nv:2fa0a0c9ec6cd923827fe3657298ac9d8cd8cafb07120b10e94b2a26d962a793"

(***************************************************************************)
(* JavaScript values.                                                      *)
(*   A string is a sequence of chunks whose concatenation is its text;     *)
(*   an optional string is Undefined or Str(s).                            *)
(*   A value used as a number carries its type tag t and, for a number or  *)
(*   a string of digits, its numeric value n.                              *)
(***************************************************************************)
Str(s) == [def |-> TRUE, s |-> s]
Undefined == [def |-> FALSE, s |-> <<>>]
\* ToBoolean of string | undefined: undefined and "" are falsy.
Truthy(v) == v.def /\ v.s # <<>>
\* a || b on optional strings
OrElse(a, b) == IF Truthy(a) THEN a ELSE b

Num(k) == [t |-> "number", n |-> k]
Digits(k) == [t |-> "digits", n |-> k]
NaN == [t |-> "NaN", n |-> 0]
NumUndefined == [t |-> "undefined", n |-> 0]
NumNull == [t |-> "null", n |-> 0]
NumText == [t |-> "text", n |-> 0]

\* Number(v): undefined -> NaN, null -> 0, "12" -> 12, "n/a" -> NaN.
ToNumber(v) ==
    CASE v.t = "number" -> v
      [] v.t = "digits" -> Num(v.n)
      [] v.t = "null" -> Num(0)
      [] OTHER -> NaN
\* ToBoolean of a value used as a number ("0" is a non-empty string: truthy).
NumTruthy(v) ==
    CASE v.t = "number" -> v.n # 0
      [] v.t = "digits" -> TRUE
      [] v.t = "text" -> TRUE
      [] OTHER -> FALSE
\* a >= b with a a number: both sides go through ToNumber, NaN compares false.
JsGE(a, b) ==
    LET x == ToNumber(a)
        y == ToNumber(b)
    IN  x.t = "number" /\ y.t = "number" /\ x.n >= y.n

(***************************************************************************)
(* PaymentsManager (src/services/nevermined/manager.ts).                   *)
(* An answer of the payment service is rejected (the promise rejects, with *)
(* err) or resolved; a resolved answer is nullish (null or undefined) or   *)
(* an object.                                                              *)
(***************************************************************************)
Credits == 0..MaxCredits
NumValues == {NumUndefined, NumNull, NumText} \cup {Num(k) : k \in Credits}
                 \cup {Digits(k) : k \in Credits}

\* payments.getPlanBalance(planDid)
BalanceAnswers ==
    {[st |-> "rejected", nullish |-> FALSE, balance |-> NumUndefined],
     [st |-> "resolved", nullish |-> TRUE, balance |-> NumUndefined]}
    \cup {[st |-> "resolved", nullish |-> FALSE, balance |-> v] : v \in NumValues}

\* payments.getAssetDDO(agentDid); minCreditsRequired is what the path
\* service[2].attributes.main.nftAttributes.minCreditsRequired holds, and
\* NumUndefined when any link of the path is missing.
DDOAnswers ==
    {[st |-> "rejected", nullish |-> FALSE, minCreditsRequired |-> NumUndefined],
     [st |-> "resolved", nullish |-> TRUE, minCreditsRequired |-> NumUndefined]}
    \cup {[st |-> "resolved", nullish |-> FALSE, minCreditsRequired |-> v] :
             v \in {NumUndefined} \cup {Num(k) : k \in Credits}
                     \cup {Digits(k) : k \in Credits \ {0}}}

\* ddo?.service?.[2]?.attributes?.main?.nftAttributes?.minCreditsRequired || 0
extractRequiredBalanceNoDefault(ddo) ==
    IF ddo.nullish THEN NumUndefined ELSE ddo.minCreditsRequired

extractRequiredBalance(ddo) ==
    LET v == IF ddo.nullish THEN NumUndefined ELSE ddo.minCreditsRequired
    IN  IF NumTruthy(v) THEN v ELSE Num(0)

ReturnBool(b) == [k |-> "return", v |-> b]
ThrowBool == [k |-> "throw", v |-> FALSE]

\* The try block of checkBalance.
checkBalanceTry(balanceResult, agentDDO) ==
    IF balanceResult.st = "rejected" THEN ThrowBool
    ELSE IF agentDDO.st = "rejected" THEN ThrowBool
    ELSE LET minRequired == extractRequiredBalance(agentDDO)
         IN  IF balanceResult.nullish THEN ThrowBool
             ELSE ReturnBool(JsGE(ToNumber(balanceResult.balance), minRequired))

checkBalanceNoCatch(balanceResult, agentDDO) ==
    checkBalanceTry(balanceResult, agentDDO)

checkBalance(balanceResult, agentDDO) ==
    LET r == checkBalanceTry(balanceResult, agentDDO)
    IN  IF r.k = "throw" THEN ReturnBool(FALSE) ELSE r

\* What a rejected promise carries: error.message (an Error may have none).
Errors == {<<"Network Error">>, <<>>}

\* payments.orderPlan(planDid)
OrderAnswers ==
    {[st |-> "rejected", nullish |-> FALSE, success |-> FALSE,
      agreementId |-> <<>>, err |-> e] : e \in Errors}
    \cup {[st |-> "resolved", nullish |-> TRUE, success |-> FALSE,
           agreementId |-> <<>>, err |-> <<>>]}
    \cup {[st |-> "resolved", nullish |-> FALSE, success |-> b,
           agreementId |-> <<"0xa1">>, err |-> <<>>] : b \in BOOLEAN}

ReturnOrder(ok, msg) == [k |-> "return", success |-> ok, message |-> msg]
ThrowOrder(e) == [k |-> "throw", success |-> FALSE, message |-> e]

\* The try block of orderPlan.
orderPlanTry(purchaseResult) ==
    IF purchaseResult.st = "rejected" THEN ThrowOrder(purchaseResult.err)
    ELSE IF purchaseResult.nullish \/ ~purchaseResult.success
         THEN ReturnOrder(FALSE, <<"Failed to create order">>)
         ELSE ReturnOrder(TRUE, <<"Plan ordered successfully. Agreement ID: ">>
                                   \o purchaseResult.agreementId)

orderPlanNoCheck(purchaseResult) ==
    IF purchaseResult.st = "rejected"
    THEN ReturnOrder(FALSE, purchaseResult.err)
    ELSE ReturnOrder(TRUE, <<"Plan ordered successfully. Agreement ID: ">>
                              \o purchaseResult.agreementId)

orderPlan(purchaseResult) ==
    LET r == orderPlanTry(purchaseResult)
    IN  IF r.k = "throw" THEN ReturnOrder(FALSE, r.message) ELSE r

\* Texts, one character per chunk, for String.prototype.replace.
HTTPS == <<"h", "t", "t", "p", "s">>
HTTP == <<"h", "t", "t", "p">>
SchemeUris == {HTTPS \o <<":", "/", "/", "p">>, HTTP \o <<":", "/", "/", "p">>}
ProxyUris ==
    SchemeUris \cup {HTTP \o <<":", "/", "/">> \o HTTPS, HTTPS \o <<":", "/", "/">> \o HTTPS}
Tokens == {<<"t1">>, <<"t2">>}

\* The least index at which pat occurs in s, 0 when it does not.
IndexOf(s, pat) ==
    LET at == {i \in 1..(Len(s) - Len(pat) + 1) : SubSeq(s, i, i + Len(pat) - 1) = pat}
    IN  IF at = {} THEN 0 ELSE CHOOSE i \in at : \A j \in at : i <= j
ReplaceLast(s, pat, rep) ==
    LET at == {i \in 1..(Len(s) - Len(pat) + 1) : SubSeq(s, i, i + Len(pat) - 1) = pat}
        i == IF at = {} THEN 0 ELSE CHOOSE k \in at : \A j \in at : j <= k
    IN  IF i = 0 THEN s
        ELSE SubSeq(s, 1, i - 1) \o rep \o SubSeq(s, i + Len(pat), Len(s))

\* s.replace(pat, rep) with a string pattern: the first occurrence only.
Replace(s, pat, rep) ==
    LET i == IndexOf(s, pat)
    IN  IF i = 0 THEN s
        ELSE SubSeq(s, 1, i - 1) \o rep \o SubSeq(s, i + Len(pat), Len(s))

\* payments.query.getServiceAccessConfig(agentDid)
AccessAnswers ==
    {[st |-> "rejected", nullish |-> FALSE, accessToken |-> Undefined,
      neverminedProxyUri |-> Undefined, err |-> e] : e \in Errors}
    \cup {[st |-> "resolved", nullish |-> TRUE, accessToken |-> Undefined,
           neverminedProxyUri |-> Undefined, err |-> <<>>]}
    \cup {[st |-> "resolved", nullish |-> FALSE, accessToken |-> t,
           neverminedProxyUri |-> u, err |-> <<>>] :
             t \in {Undefined, Str(<<>>)} \cup {Str(x) : x \in Tokens},
             u \in {Undefined} \cup {Str(x) : x \in ProxyUris}}

NoGrant == [neverminedProxyUri |-> <<>>, accessToken |-> <<>>]
ReturnAccess(uri, token) ==
    [k |-> "return", grant |-> [neverminedProxyUri |-> uri, accessToken |-> token],
     err |-> <<>>]
ThrowAccess(e) == [k |-> "throw", grant |-> NoGrant, err |-> e]

getServiceAccessNoTokenCheck(accessConfig) ==
    IF accessConfig.st = "rejected" THEN ThrowAccess(accessConfig.err)
    ELSE IF accessConfig.nullish
         THEN ThrowAccess(<<"Failed to get service access configuration">>)
         ELSE IF ~accessConfig.neverminedProxyUri.def
              THEN ThrowAccess(<<"Cannot read properties of undefined">>)
              ELSE ReturnAccess(Replace(accessConfig.neverminedProxyUri.s, HTTPS, HTTP),
                                accessConfig.accessToken.s)

\* The catch block logs and rethrows: every throw of the body leaves the call.
getServiceAccess(accessConfig) ==
    IF accessConfig.st = "rejected" THEN ThrowAccess(accessConfig.err)
    ELSE IF accessConfig.nullish \/ ~Truthy(accessConfig.accessToken)
         THEN ThrowAccess(<<"Failed to get service access configuration">>)
         ELSE IF ~accessConfig.neverminedProxyUri.def
              THEN ThrowAccess(<<"Cannot read properties of undefined">>)
              ELSE ReturnAccess(Replace(accessConfig.neverminedProxyUri.s, HTTPS, HTTP),
                                accessConfig.accessToken.s)

\* new VideoService(baseUrl, accessToken)
VideoService(baseUrl, accessToken) ==
    [made |-> TRUE, baseUrl |-> baseUrl, accessToken |-> accessToken]
NoService == [made |-> FALSE, baseUrl |-> <<>>, accessToken |-> <<>>]

getVideoService(accessConfigAnswer) ==
    LET accessConfig == getServiceAccess(accessConfigAnswer)
    IN  IF accessConfig.k = "throw"
        THEN [k |-> "throw", service |-> NoService, err |-> accessConfig.err]
        ELSE [k |-> "return",
              service |-> VideoService(accessConfig.grant.neverminedProxyUri,
                                       accessConfig.grant.accessToken),
              err |-> <<>>]

(***************************************************************************)
(* VideoService (src/services/video/service.ts, lines 19-163).             *)
(* An answer of the generation backend to the POST: the fetch rejects, or  *)
(* resolves with a status and a body; the body is no JSON ("invalid"), the *)
(* JSON null, or an object that may hold imageUrl and url.                 *)
(***************************************************************************)
Statuses == {200, 299, 500}
ImageUri == <<"https://cdn/image.jpg">>
VideoUri == <<"https://cdn/video.mp4">>

FetchAnswers ==
    {[st |-> "rejected", status |-> 0, json |-> "invalid", imageUrl |-> Undefined,
      url |-> Undefined, err |-> e] : e \in Errors}
    \cup {[st |-> "resolved", status |-> c, json |-> "invalid", imageUrl |-> Undefined,
           url |-> Undefined, err |-> <<>>] : c \in Statuses}
    \cup {[st |-> "resolved", status |-> c, json |-> "null", imageUrl |-> Undefined,
           url |-> Undefined, err |-> <<>>] : c \in Statuses}
    \cup {[st |-> "resolved", status |-> c, json |-> "object", imageUrl |-> i,
           url |-> u, err |-> <<>>] :
             c \in Statuses,
             i \in {Undefined, Str(<<>>), Str(ImageUri)},
             u \in {Undefined, Str(VideoUri)}}

\* response.ok
ResponseOk(status) == 200 <= status /\ status <= 299

\* MediaGenerationResponse
MediaGenerationResponse(success, message, imageUrl, url) ==
    [success |-> success, message |-> message, imageUrl |-> imageUrl, url |-> url]
ReturnGen(r) == [k |-> "return", res |-> r, err |-> <<>>]
ThrowGen(e) ==
    [k |-> "throw", res |-> MediaGenerationResponse(FALSE, Undefined, Undefined, Undefined),
     err |-> e]

\* What the fetch, the status check and response.json() throw, <<>> for nothing.
PostThrows(response) ==
    response.st = "rejected" \/ ~ResponseOk(response.status) \/ response.json # "object"
PostError(response) ==
    IF response.st = "rejected" THEN response.err
    ELSE IF ~ResponseOk(response.status)
         THEN <<"HTTP error! status: ", ToString(response.status)>>
         ELSE IF response.json = "invalid"
              THEN <<"Unexpected token in JSON">>
              ELSE <<"Cannot read properties of null">>

\* The try blocks of the three operations.
generateText2ImageTry(response) ==
    IF PostThrows(response) THEN ThrowGen(PostError(response))
    ELSE ReturnGen(MediaGenerationResponse(TRUE, Undefined, response.imageUrl, Undefined))

generateImage2ImageTry(response) ==
    IF PostThrows(response) THEN ThrowGen(PostError(response))
    ELSE ReturnGen(MediaGenerationResponse(TRUE, Undefined, response.imageUrl, Undefined))

generateText2VideoTry(response) ==
    IF PostThrows(response) THEN ThrowGen(PostError(response))
    ELSE ReturnGen(MediaGenerationResponse(TRUE, Undefined, Undefined, response.url))

CatchGenRethrow(r) == r

\* catch (error): { success: false, message: error.message }
CatchGen(r) ==
    IF r.k = "throw"
    THEN ReturnGen(MediaGenerationResponse(FALSE, Str(r.err), Undefined, Undefined))
    ELSE r

generateText2Image(response) == CatchGen(generateText2ImageTry(response))

generateImage2Image(response) == CatchGen(generateImage2ImageTry(response))

generateText2Video(response) == CatchGen(generateText2VideoTry(response))

(***************************************************************************)
(* downloadAsBase64 (src/services/video/service.ts, lines 211-227 and      *)
(* lines 1000-1015).                                                       *)
(* An answer of the media host to axios.get: it rejects, or resolves with  *)
(* a buffer of byteLength bytes and maybe a content-length header (the     *)
(* header counts the bytes on the wire: it is missing on a chunked answer  *)
(* and smaller than the buffer on a compressed one).                       *)
(***************************************************************************)
OneMiB == 1048576
ByteLengths ==
    {0, 2048, 5 * OneMiB} \cup {n \in (OneMiB - Slack)..(OneMiB + Slack) : TRUE}
ContentLengths(byteLength) == {byteLength, 2048}

MediaAnswers ==
    {[st |-> "rejected", byteLength |-> 0, hasLength |-> FALSE, contentLength |-> 0,
      err |-> e] : e \in Errors}
    \cup {[st |-> "resolved", byteLength |-> n, hasLength |-> FALSE, contentLength |-> 0,
           err |-> <<>>] : n \in ByteLengths}
    \cup UNION {{[st |-> "resolved", byteLength |-> n, hasLength |-> TRUE,
                  contentLength |-> c, err |-> <<>>] : c \in ContentLengths(n)} :
                n \in ByteLengths}

\* Buffer.from(data).toString("base64") of n bytes: the whole buffer, in
\* 4 characters for every 3 bytes.
Base64Length(n) == 4 * ((n + 2) \div 3)

\* The same on a buffer written out byte by byte: every 3 bytes give 4
\* characters of 6 bits each, and a tail of 1 or 2 bytes gives 2 or 3
\* characters and "=" up to 4.
Base64Alphabet ==
    <<"A", "B", "C", "D", "E", "F", "G", "H", "I", "J", "K", "L", "M", "N", "O", "P",
      "Q", "R", "S", "T", "U", "V", "W", "X", "Y", "Z", "a", "b", "c", "d", "e", "f",
      "g", "h", "i", "j", "k", "l", "m", "n", "o", "p", "q", "r", "s", "t", "u", "v",
      "w", "x", "y", "z", "0", "1", "2", "3", "4", "5", "6", "7", "8", "9", "+", "/">>
Base64Char(sextet) == Base64Alphabet[sextet + 1]
Base64Group(b1, b2, b3) ==
    <<Base64Char(b1 \div 4),
      Base64Char((b1 % 4) * 16 + b2 \div 16),
      Base64Char((b2 % 16) * 4 + b3 \div 64),
      Base64Char(b3 % 64)>>
Base64Tail(bytes) ==
    IF Len(bytes) = 0 THEN <<>>
    ELSE IF Len(bytes) = 1
         THEN <<Base64Char(bytes[1] \div 4), Base64Char((bytes[1] % 4) * 16), "=", "=">>
         ELSE <<Base64Char(bytes[1] \div 4),
                Base64Char((bytes[1] % 4) * 16 + bytes[2] \div 16),
                Base64Char((bytes[2] % 16) * 4), "=">>

RECURSIVE ToBase64WholeGroups(_)
ToBase64WholeGroups(bytes) ==
    IF Len(bytes) < 3 THEN <<>>
    ELSE Base64Group(bytes[1], bytes[2], bytes[3])
         \o ToBase64WholeGroups(SubSeq(bytes, 4, Len(bytes)))

RECURSIVE ToBase64(_)
ToBase64(bytes) ==
    IF Len(bytes) < 3 THEN Base64Tail(bytes)
    ELSE Base64Group(bytes[1], bytes[2], bytes[3])
         \o ToBase64(SubSeq(bytes, 4, Len(bytes)))

\* Buffers small enough to write out.
MaxBytes == 4
ByteValues == {0, 1, 128, 255}
Buffers == UNION {[1..n -> ByteValues] : n \in 0..MaxBytes}
ReturnBase64(n) ==
    [k |-> "return", null |-> FALSE, bytes |-> n, length |-> Base64Length(n), err |-> <<>>]
ReturnNull == [k |-> "return", null |-> TRUE, bytes |-> 0, length |-> 0, err |-> <<>>]
ThrowMedia(e) == [k |-> "throw", null |-> TRUE, bytes |-> 0, length |-> 0, err |-> e]
\* ToBoolean of string | null
MediaTruthyNonNull(m) == ~m.null

MediaTruthy(m) == ~m.null /\ m.length > 0

\* lines 211-227: parseInt(response.headers["content-length"] || "0")
downloadAsBase64Mcp(response) ==
    IF response.st = "rejected" THEN ReturnNull
    ELSE LET contentLength == IF response.hasLength THEN response.contentLength ELSE 0
         IN  IF contentLength > 1024 * 1024 THEN ReturnNull
             ELSE ReturnBase64(response.byteLength)

downloadAsBase64Inclusive(response) ==
    IF response.st = "rejected" THEN ThrowMedia(response.err)
    ELSE IF response.byteLength >= 1024 * 1024 THEN ReturnNull
         ELSE ReturnBase64(response.byteLength)

\* lines 1000-1015
downloadAsBase64(response) ==
    IF response.st = "rejected" THEN ThrowMedia(response.err)
    ELSE IF response.byteLength > 1024 * 1024 THEN ReturnNull
         ELSE ReturnBase64(response.byteLength)

(***************************************************************************)
(* The process and the PaymentsManager class (manager.ts lines 21-42;      *)
(* service.ts lines 628-638 and 1021-1035, lines 188-198 and 593-603 in    *)
(* the first index).                                                       *)
(* manager.instance is PaymentsManager.instance: 0 for undefined, else the *)
(* run of the constructor that made it; manager.payments is the client     *)
(* handle that run obtained; manager.constructions counts the runs.        *)
(***************************************************************************)
NoManager == [instance |-> 0, payments |-> 0, constructions |-> 0]

\* new PaymentsManager(): Payments.getInstance(...) gives the handle, or throws.
Construct(m, ok) ==
    IF ok
    THEN [k |-> "return",
          manager |-> [instance |-> m.constructions + 1,
                       payments |-> m.constructions + 1,
                       constructions |-> m.constructions + 1]]
    ELSE [k |-> "throw", manager |-> [m EXCEPT !.constructions = @ + 1]]

getInstanceAlwaysNew(m, ok) == Construct(m, ok)

\* if (!PaymentsManager.instance) PaymentsManager.instance = new PaymentsManager();
\* return PaymentsManager.instance;
getInstance(m, ok) ==
    IF m.instance # 0 THEN [k |-> "return", manager |-> m]
    ELSE Construct(m, ok)

ModuleInitCaught(b, m, keySet, ok, connected) ==
    [process |-> "running",
     manager |-> IF b = "manager" /\ keySet THEN getInstance(m, ok).manager ELSE m]

\* The top level of the index module: validateConfig(), then
\* PaymentsManager.getInstance() (new NeverminedMCP(...) in the first
\* index), then main().  An exception at the top level ends the process,
\* and so does a transport that fails to connect (process.exit(1)).
ModuleInit(b, m, keySet, ok, connected) ==
    IF b = "manager"
    THEN IF ~keySet THEN [process |-> "exited", manager |-> m]
         ELSE LET r == getInstance(m, ok)
              IN  [process |-> IF r.k = "return" /\ connected THEN "running"
                               ELSE "exited",
                   manager |-> r.manager]
    ELSE [process |-> IF ok /\ connected THEN "running" ELSE "exited",
          manager |-> m]

ModuleInitialisation ==
    /\ process = "loading"
    /\ \E keySet \in BOOLEAN, ok \in BOOLEAN, connected \in BOOLEAN :
          LET r == ModuleInit(build, manager, keySet, ok, connected)
          IN  /\ process' = r.process
              /\ manager' = r.manager
    /\ UNCHANGED <<toolVars, opsVars>>

\* Tool calls are served, and operations run, in a process that is up; the
\* operations of PaymentsManager run on its instance.
Running == process = "running"
HasManager == Running /\ manager.instance # 0

(***************************************************************************)
(* SpecOps: one operation called on its own.                               *)
(***************************************************************************)
NoCall == [op |-> "none"]
NoOutcome == [k |-> "none"]

\* The payment service: what getPlanBalance and getAssetDDO answer when the
\* request goes through.
PaymentStates ==
    [plan : {a \in BalanceAnswers : a.st = "resolved"},
     agent : {d \in DDOAnswers : d.st = "resolved"}]

\* this.payments.getPlanBalance(planDid): the plan as the service holds it,
\* or a rejection when the request fails.
getPlanBalance(p) ==
    {p.plan} \cup {a \in BalanceAnswers : a.st = "rejected"}
\* this.payments.getAssetDDO(agentDid)
getAssetDDO(p) ==
    {p.agent} \cup {d \in DDOAnswers : d.st = "rejected"}

AfterBalanceQueriesCharged(p) ==
    [p EXCEPT !.plan = [st |-> "resolved", nullish |-> FALSE, balance |-> Num(0)]]

\* The payment service after checkBalance: getPlanBalance and getAssetDDO
\* are the only requests it makes, and both are reads.
AfterBalanceQueries(p) == p

\* No earlier call in the present state of the payment service.
NoEarlier == [k |-> "none", v |-> FALSE]

\* checkBalance(PLAN_DID, AGENT_DID) with the payment service in state p: the
\* state the preceding checkBalance left it in, or another one when the plan
\* was topped up or spent or the descriptor republished in between.  The
\* call record keeps the state before and after the call, the outcome of the
\* call before it in the same state (last) and that of the latest such call
\* whose two requests went through (lastFetched).  A series of checkBalance
\* calls is not mixed with calls of the other operations.
CallCheckBalance ==
    /\ HasManager
    /\ call.op \in {"none", "checkBalance"}
    /\ \E p \in PaymentStates :
          \E b \in getPlanBalance(p), d \in getAssetDDO(p) :
             LET repeated == call.op = "checkBalance" /\ call.after = p
                 fetched == call.answer.st = "resolved" /\ call.ddo.st = "resolved"
             IN  /\ call' = [op |-> "checkBalance", answer |-> b, ddo |-> d,
                             payments |-> p,
                             after |-> AfterBalanceQueries(p),
                             last |-> IF repeated THEN outcome ELSE NoEarlier,
                             lastFetched |-> IF repeated
                                             THEN IF fetched THEN outcome
                                                  ELSE call.lastFetched
                                             ELSE NoEarlier]
                 /\ outcome' = checkBalance(b, d)
    /\ UNCHANGED <<toolVars, procVars>>

CallOrderPlan ==
    /\ HasManager
    /\ \E a \in OrderAnswers :
          /\ call' = [op |-> "orderPlan", answer |-> a]
          /\ outcome' = orderPlan(a)
    /\ UNCHANGED <<toolVars, procVars>>

CallGetServiceAccess ==
    /\ HasManager
    /\ \E a \in AccessAnswers :
          /\ call' = [op |-> "getServiceAccess", answer |-> a]
          /\ outcome' = getServiceAccess(a)
    /\ UNCHANGED <<toolVars, procVars>>

CallGetVideoService ==
    /\ HasManager
    /\ \E a \in AccessAnswers :
          /\ call' = [op |-> "getVideoService", answer |-> a]
          /\ outcome' = getVideoService(a)
    /\ UNCHANGED <<toolVars, procVars>>

CallGenerateText2Image ==
    /\ Running
    /\ \E a \in FetchAnswers :
          /\ call' = [op |-> "generateText2Image", answer |-> a]
          /\ outcome' = generateText2Image(a)
    /\ UNCHANGED <<toolVars, procVars>>

CallGenerateImage2Image ==
    /\ Running
    /\ \E a \in FetchAnswers :
          /\ call' = [op |-> "generateImage2Image", answer |-> a]
          /\ outcome' = generateImage2Image(a)
    /\ UNCHANGED <<toolVars, procVars>>

CallGenerateText2Video ==
    /\ Running
    /\ \E a \in FetchAnswers :
          /\ call' = [op |-> "generateText2Video", answer |-> a]
          /\ outcome' = generateText2Video(a)
    /\ UNCHANGED <<toolVars, procVars>>

CallDownloadAsBase64 ==
    /\ Running
    /\ \E a \in MediaAnswers :
          /\ call' = [op |-> "downloadAsBase64", answer |-> a]
          /\ outcome' = downloadAsBase64(a)
    /\ UNCHANGED <<toolVars, procVars>>

CallDownloadAsBase64Mcp ==
    /\ Running
    /\ \E a \in MediaAnswers :
          /\ call' = [op |-> "downloadAsBase64Mcp", answer |-> a]
          /\ outcome' = downloadAsBase64Mcp(a)
    /\ UNCHANGED <<toolVars, procVars>>

\* downloadAsBase64 on an artifact small enough to write out: data is
\* response.data, and the text returned is kept next to its length.  It is
\* called once, from the initial state.
CallDownloadAsBase64Buffer ==
    /\ Running
    /\ call = NoCall
    /\ \E data \in Buffers, op \in {"downloadAsBase64", "downloadAsBase64Mcp"} :
          LET response == [st |-> "resolved", byteLength |-> Len(data),
                           hasLength |-> TRUE, contentLength |-> Len(data),
                           err |-> <<>>]
              r == IF op = "downloadAsBase64" THEN downloadAsBase64(response)
                   ELSE downloadAsBase64Mcp(response)
          IN  /\ call' = [op |-> op, answer |-> response, data |-> data]
              /\ outcome' = [k |-> r.k, null |-> r.null, bytes |-> r.bytes,
                             length |-> r.length, err |-> r.err,
                             text |-> IF r.k = "return" /\ ~r.null
                                      THEN ToBase64(data) ELSE <<>>]
    /\ UNCHANGED <<toolVars, procVars>>

\* PaymentsManager.getInstance() called again in the running process.
CallGetInstance ==
    /\ HasManager
    /\ \E ok \in BOOLEAN :
          LET r == getInstance(manager, ok)
          IN  /\ call' = [op |-> "getInstance", before |-> manager, ok |-> ok]
              /\ outcome' = [k |-> r.k, instance |-> r.manager.instance]
              /\ manager' = r.manager
    /\ UNCHANGED <<toolVars, process>>

NextOps ==
    \/ ModuleInitialisation
    \/ CallGetInstance
    \/ CallCheckBalance
    \/ CallOrderPlan
    \/ CallGetServiceAccess
    \/ CallGetVideoService
    \/ CallGenerateText2Image
    \/ CallGenerateImage2Image
    \/ CallGenerateText2Video
    \/ CallDownloadAsBase64
    \/ CallDownloadAsBase64Mcp
    \/ CallDownloadAsBase64Buffer

(***************************************************************************)
(* The tool handlers (src/services/video/service.ts): lines 165-603 are    *)
(* the entry point built on the NeverminedMCP library (build "mcp"),       *)
(* lines 605-1034 the one built on PaymentsManager (build "manager").      *)
(* The library is not part of the repository: what its calls return is     *)
(* drawn from the outcomes their callers handle.                           *)
(***************************************************************************)
Builds == {"mcp", "manager"}
GenerationTools == {"text2image", "image2image", "text2video"}
Invocations == 1..MaxInvocations
\* purchase_plan takes any string as planDid.
PlanDids == {PLAN_DID, "did:nv:other"}

LibraryCheckBalance == {ReturnBool(TRUE), ReturnBool(FALSE), ThrowBool}
LibraryServiceAccess ==
    {ReturnAccess(HTTP \o <<":", "/", "/", "p">>, t) : t \in Tokens}
    \cup {ThrowAccess(e) : e \in Errors \ {<<>>}}
LibraryPurchasePlan ==
    {ReturnOrder(TRUE, <<"Plan ordered">>), ReturnOrder(TRUE, <<>>),
     ReturnOrder(FALSE, <<"Failed to create order">>), ReturnOrder(FALSE, <<>>)}
    \cup {ThrowOrder(e) : e \in Errors}

\* One item of a response's content array.
TextItem(text) ==
    [type |-> "text", text |-> text, uri |-> <<>>, inline |-> FALSE, bytes |-> 0,
     mimeType |-> ""]
\* { type: "resource", resource: { uri, blob, mimeType } }
BlobItem(uri, media, mimeType) ==
    [type |-> "resource", text |-> <<>>, uri |-> uri, inline |-> TRUE,
     bytes |-> media.bytes, mimeType |-> mimeType]
\* { type: "resource", resource: { uri, text, mimeType } }
ReferenceItem(uri, text, mimeType) ==
    [type |-> "resource", text |-> text, uri |-> uri, inline |-> FALSE, bytes |-> 0,
     mimeType |-> mimeType]
\* { type: "image", data, mimeType }
ImageItem(media, mimeType) ==
    [type |-> "image", text |-> <<>>, uri |-> <<>>, inline |-> TRUE,
     bytes |-> media.bytes, mimeType |-> mimeType]

NoMetadata == [needsPurchase |-> FALSE, planDid |-> ""]
NoResponse ==
    [kind |-> "none", isError |-> FALSE, content |-> <<>>, metadata |-> NoMetadata,
     err |-> <<>>]
Returned(isError, content, metadata) ==
    [kind |-> "returned", isError |-> isError, content |-> content,
     metadata |-> metadata, err |-> <<>>]
\* The handler's promise rejects.
Thrown(e) ==
    [kind |-> "thrown", isError |-> FALSE, content |-> <<>>, metadata |-> NoMetadata,
     err |-> e]

\* The response of the branch if (!hasBalance).
PurchasePrompt ==
    Returned(FALSE,
             <<TextItem(<<"Insufficient credits. Please purchase a plan using the purchase_plan tool with the following parameters:">>),
               TextItem(<<"{ planDid: ", PLAN_DID, " }">>)>>,
             [needsPurchase |-> TRUE, planDid |-> PLAN_DID])

ErrorPrefix(tool) ==
    CASE tool = "text2image" -> <<"Error generating image: ">>
      [] tool = "image2image" -> <<"Error transforming image: ">>
      [] tool = "text2video" -> <<"Error generating video: ">>
NoUrlText(tool) ==
    IF tool = "text2video" THEN <<"No video URL returned">> ELSE <<"No image URL returned">>
\* result.imageUrl for the image tools, result.url for text2video
PrimaryUri(tool, result) == IF tool = "text2video" THEN result.url ELSE result.imageUrl
MimeType(b, tool) ==
    IF tool = "text2video" THEN "video/mp4"
    ELSE IF b = "manager" THEN "image/jpeg" ELSE "image/png"
ReferenceText(b, tool) ==
    IF b = "manager"
    THEN IF tool = "text2video" THEN <<"Video too large to display directly">>
         ELSE <<"Image too large to display directly">>
    ELSE CASE tool = "text2image" -> <<"Generated image">>
           [] tool = "image2image" -> <<"Transformed image">>
           [] tool = "text2video" -> <<"Generated video">>

GenerationFailedNoUriCheck(tool, result) == ~result.success

\* if (!result.success || !result.imageUrl) return { isError: true, ... }
GenerationFailed(tool, result) == ~result.success \/ ~Truthy(PrimaryUri(tool, result))
GenerationErrorThrown(tool, result) ==
    Thrown(OrElse(result.message, Str(NoUrlText(tool))).s)

GenerationError(tool, result) ==
    Returned(TRUE,
             <<TextItem(ErrorPrefix(tool) \o OrElse(result.message, Str(NoUrlText(tool))).s)>>,
             NoMetadata)

\* The content built from what downloadAsBase64 returned.
MediaContent(b, tool, result, media) ==
    LET uri == PrimaryUri(tool, result).s
    IN  IF b = "manager"
        THEN IF MediaTruthy(media)
             THEN BlobItem(uri, media, MimeType(b, tool))
             ELSE ReferenceItem(uri, ReferenceText(b, tool), MimeType(b, tool))
        ELSE IF MediaTruthy(media)
             THEN ImageItem(media, MimeType(b, tool))
             ELSE ReferenceItem(uri, ReferenceText(b, tool), MimeType(b, tool))

CatchesNothing(tool) == FALSE

\* image2image runs in try/catch; text2image and text2video do not.
Catches(tool) == tool = "image2image"
\* An exception inside a handler: caught by image2image, thrown by the others.
Raise(b, tool, e) ==
    IF Catches(tool)
    THEN IF b = "manager"
         THEN Returned(TRUE, <<TextItem(<<"Error transforming image">>)>>, NoMetadata)
         ELSE Returned(TRUE, <<TextItem(<<"Error in image transformation: ">> \o e)>>,
                       NoMetadata)
    ELSE Thrown(e)

NoResult == MediaGenerationResponse(FALSE, Undefined, Undefined, Undefined)
NoMedia == [k |-> "none", null |-> TRUE, bytes |-> 0, length |-> 0, err |-> <<>>]
NoBalance == [k |-> "none", v |-> FALSE]
\* What axios.get on the generated URI came back with, as far as the
\* properties of the handlers need it: whether it resolved, and the size of
\* the buffer.
NotFetched == [st |-> "none", byteLength |-> 0]
Fetched(response) == [st |-> response.st, byteLength |-> response.byteLength]
\* How the purchase of purchase_plan ended, and the planDid it was called with.
NoPurchase == [planDid |-> "", k |-> "none", success |-> FALSE]

\* The POST a VideoService operation sends before it awaits the answer:
\* fetch(`${this.baseUrl}/api/generate/<tool>`, { headers: { Authorization:
\* `Bearer ${this.accessToken}` } }).
NoRequest == [sent |-> FALSE, url |-> <<>>, bearer |-> <<>>]
PostWithSharedToken(tool, videoService) ==
    [sent |-> TRUE, url |-> videoService.baseUrl \o <<"/api/generate/", tool>>,
     bearer |-> <<"t1">>]

Post(tool, videoService) ==
    [sent |-> TRUE, url |-> videoService.baseUrl \o <<"/api/generate/", tool>>,
     bearer |-> videoService.accessToken]

(***************************************************************************)
(* One tool invocation: the handler's position pc, its locals (hasBalance, *)
(* videoService, result, the downloaded media, purchaseResult), the calls  *)
(* it has made so far, in order, and the response it ended with.           *)
(* hasBalance, access, media and purchase keep how the awaited call ended  *)
(* ("return" or "throw"); fetched keeps the media host's answer, grant the *)
(* access grant the handler's own retrieval returned, and request the POST *)
(* of the handler's VideoService that is awaiting its answer.              *)
(***************************************************************************)
IdleTask ==
    [tool |-> "none", pc |-> "idle", planDid |-> "", hasBalance |-> NoBalance,
     access |-> "none", grant |-> NoGrant, videoService |-> NoService,
     request |-> NoRequest, result |-> NoResult,
     fetched |-> NotFetched, media |-> NoMedia, purchase |-> NoPurchase,
     calls |-> <<>>, response |-> NoResponse]

\* The handler ends with response r; the grant and the VideoService go out
\* of scope.
Done(t, r) ==
    [t EXCEPT !.pc = "done", !.response = r, !.grant = NoGrant,
              !.videoService = NoService, !.request = NoRequest]

Init ==
    /\ build \in Builds
    /\ task = [i \in Invocations |-> IdleTask]
    /\ call = NoCall
    /\ outcome = NoOutcome
    /\ process = "loading"
    /\ manager = NoManager

\* The transport dispatches a tool call to its handler.
Dispatch(i) ==
    /\ Running
    /\ task[i].pc = "idle"
    /\ \E t \in GenerationTools \cup {"purchase_plan"}, p \in PlanDids :
          task' = [task EXCEPT ![i] =
                     [IdleTask EXCEPT !.tool = t,
                                      !.pc = IF t = "purchase_plan" THEN "orderPlan"
                                             ELSE "checkBalance",
                                      !.planDid = IF t = "purchase_plan" THEN p ELSE ""]]
    /\ UNCHANGED <<build, opsVars, procVars>>

\* What checkBalance resolves to in each build.
BalanceOutcomes ==
    [b \in Builds |->
        IF b = "manager"
        THEN {checkBalance(x, d) : x \in BalanceAnswers, d \in DDOAnswers}
        ELSE LibraryCheckBalance]

InsufficientNever(hasBalance) == FALSE

InsufficientAlways(hasBalance) == TRUE

\* if (!hasBalance)
Insufficient(hasBalance) == ~hasBalance

AfterCheckBalanceUnchecked(b, t, r) ==
    [t EXCEPT !.hasBalance = r, !.calls = Append(@, "checkBalance"),
              !.pc = "getAccess"]

\* const hasBalance = await checkBalance(PLAN_DID, AGENT_DID);
\* if (!hasBalance) return the purchase prompt
AfterCheckBalance(b, t, r) ==
    LET t1 == [t EXCEPT !.hasBalance = r, !.calls = Append(@, "checkBalance")]
    IN  IF r.k = "throw" THEN Done(t1, Raise(b, t.tool, <<"checkBalance failed">>))
        ELSE IF Insufficient(r.v) THEN Done(t1, PurchasePrompt)
        ELSE [t1 EXCEPT !.pc = "getAccess"]

CheckBalanceStep(i) ==
    /\ task[i].pc = "checkBalance"
    /\ \E r \in BalanceOutcomes[build] :
          task' = [task EXCEPT ![i] = AfterCheckBalance(build, task[i], r)]
    /\ UNCHANGED <<build, opsVars, procVars>>

\* What obtaining the VideoService gives in each build:
\* paymentsManager.getVideoService(AGENT_DID), or
\* new VideoService(...) on what neverminedMCP.getServiceAccess returned.
\* Each outcome keeps the grant the retrieval returned next to the
\* VideoService made of it.
WithGrant(accessConfig, made) ==
    [k |-> made.k, grant |-> accessConfig.grant, service |-> made.service,
     err |-> made.err]
ServiceOutcomes ==
    [b \in Builds |->
        IF b = "manager"
        THEN {WithGrant(getServiceAccess(a), getVideoService(a)) :
                 a \in {x \in AccessAnswers :
                          /\ x.neverminedProxyUri.def
                             => x.neverminedProxyUri.s \in SchemeUris
                          /\ x.st = "rejected" => x.err # <<>>}}
        ELSE {WithGrant(a, IF a.k = "throw"
                           THEN [k |-> "throw", service |-> NoService, err |-> a.err]
                           ELSE [k |-> "return",
                                 service |-> VideoService(a.grant.neverminedProxyUri,
                                                          a.grant.accessToken),
                                 err |-> <<>>]) : a \in LibraryServiceAccess}]

AfterGetAccessUnchecked(b, t, r) ==
    [t EXCEPT !.access = r.k, !.calls = Append(@, "getServiceAccess"),
              !.pc = "generate", !.grant = r.grant, !.videoService = r.service,
              !.request = Post(t.tool, r.service)]

\* const videoService = await paymentsManager.getVideoService(AGENT_DID);
\* const result = await videoService.generate...(...): the POST is sent
\* before the handler yields again.
AfterGetAccess(b, t, r) ==
    LET t1 == [t EXCEPT !.access = r.k, !.calls = Append(@, "getServiceAccess")]
    IN  IF r.k = "throw" THEN Done(t1, Raise(b, t.tool, r.err))
        ELSE [t1 EXCEPT !.pc = "generate", !.grant = r.grant,
                        !.videoService = r.service,
                        !.request = Post(t.tool, r.service)]

GetAccessStep(i) ==
    /\ task[i].pc = "getAccess"
    /\ \E r \in ServiceOutcomes[build] :
          task' = [task EXCEPT ![i] = AfterGetAccess(build, task[i], r)]
    /\ UNCHANGED <<build, opsVars, procVars>>

\* The VideoService operation each tool calls.
Generate(tool, response) ==
    CASE tool = "text2image" -> generateText2Image(response)
      [] tool = "image2image" -> generateImage2Image(response)
      [] tool = "text2video" -> generateText2Video(response)

\* What the tool's VideoService operation resolves to.
GenerationOutcomes ==
    [t \in GenerationTools |-> {Generate(t, a) : a \in FetchAnswers}]

\* In build "mcp" text2video returns the reference without downloading.
Downloads(b, tool) == b = "manager" \/ tool # "text2video"

\* const result = await videoService.generate...(...);
\* if (!result.success || !result.imageUrl) return the error
AfterGenerate(b, t, r) ==
    LET t1 == [t EXCEPT !.result = r.res, !.request = NoRequest,
                        !.calls = Append(@, "generate")]
    IN  IF r.k = "throw" THEN Done(t1, Raise(b, t.tool, r.err))
        ELSE IF GenerationFailed(t.tool, r.res)
             THEN Done(t1, GenerationError(t.tool, r.res))
             ELSE IF Downloads(b, t.tool)
                  THEN [t1 EXCEPT !.pc = "download"]
                  ELSE Done(t1, Returned(FALSE,
                                         <<ReferenceItem(PrimaryUri(t.tool, r.res).s,
                                                         ReferenceText(b, t.tool),
                                                         MimeType(b, t.tool))>>,
                                         NoMetadata))

GenerateStep(i) ==
    /\ task[i].pc = "generate"
    /\ \E r \in GenerationOutcomes[task[i].tool] :
          task' = [task EXCEPT ![i] = AfterGenerate(build, task[i], r)]
    /\ UNCHANGED <<build, opsVars, procVars>>

\* What downloadAsBase64 gives in the running build.
Download(b, response) ==
    IF b = "manager" THEN downloadAsBase64(response) ELSE downloadAsBase64Mcp(response)

\* The answers of the media host the handlers are run on: a rejection with
\* a message, or an artifact of no bytes, a small one, one of exactly 1 MiB,
\* one of a byte more, or a large one.
HandlerMediaAnswers ==
    {a \in MediaAnswers :
        IF a.st = "rejected" THEN a.err # <<>>
        ELSE a.byteLength \in {0, 2048, 1024 * 1024, 1024 * 1024 + 1, 5 * 1024 * 1024}}

\* The media host's answer next to what downloadAsBase64 made of it.
DownloadOutcomes ==
    [b \in Builds |->
        {[fetched |-> Fetched(a), media |-> Download(b, a)] :
            a \in HandlerMediaAnswers}]

AfterDownloadPending(b, t, r) == t

\* const imageBase64 = await downloadAsBase64(result.imageUrl); return the content
AfterDownload(b, t, r) ==
    LET t1 == [t EXCEPT !.fetched = r.fetched, !.media = r.media,
                        !.calls = Append(@, "download")]
    IN  IF r.media.k = "throw" THEN Done(t1, Raise(b, t.tool, r.media.err))
        ELSE Done(t1, Returned(FALSE, <<MediaContent(b, t.tool, t.result, r.media)>>,
                               NoMetadata))

DownloadStep(i) ==
    /\ task[i].pc = "download"
    /\ \E r \in DownloadOutcomes[build] :
          task' = [task EXCEPT ![i] = AfterDownload(build, task[i], r)]
    /\ UNCHANGED <<build, opsVars, procVars>>

\* What the purchase gives in each build.
PurchaseOutcomes ==
    [b \in Builds |->
        IF b = "manager" THEN {orderPlan(a) : a \in OrderAnswers}
        ELSE LibraryPurchasePlan]

AfterPurchaseUnchecked(t, r) ==
    Done([t EXCEPT !.purchase = [planDid |-> t.planDid, k |-> r.k,
                                 success |-> r.success],
                   !.calls = Append(@, "orderPlan")],
         Returned(FALSE,
                  <<TextItem(<<"Plan purchased successfully. You can now generate media.">>)>>,
                  NoMetadata))

\* The purchase_plan handler: one call, in try/catch.
AfterPurchase(t, r) ==
    LET t1 == [t EXCEPT !.purchase = [planDid |-> t.planDid, k |-> r.k,
                                      success |-> r.success],
                        !.calls = Append(@, "orderPlan")]
    IN  IF r.k = "throw"
        THEN Done(t1, Returned(TRUE,
                               <<TextItem(<<"Error in plan purchase: ">> \o r.message)>>,
                               NoMetadata))
        ELSE IF ~r.success
             THEN Done(t1, Returned(TRUE,
                            <<TextItem(<<"Error purchasing plan: ">>
                                 \o (IF r.message # <<>> THEN r.message
                                     ELSE <<"Unknown error">>))>>,
                            NoMetadata))
             ELSE Done(t1, Returned(FALSE,
                            <<TextItem(IF r.message # <<>> THEN r.message
                                       ELSE <<"Plan purchased successfully. You can now generate media.">>)>>,
                            NoMetadata))

PurchaseStep(i) ==
    /\ task[i].pc = "orderPlan"
    /\ \E r \in PurchaseOutcomes[build] :
          task' = [task EXCEPT ![i] = AfterPurchase(task[i], r)]
    /\ UNCHANGED <<build, opsVars, procVars>>

\* The response is delivered; the slot takes the next tool call.
Retire(i) ==
    /\ task[i].pc = "done"
    /\ task' = [task EXCEPT ![i] = IdleTask]
    /\ UNCHANGED <<build, opsVars, procVars>>

Next ==
    \/ ModuleInitialisation
    \/ \E i \in Invocations :
        \/ Dispatch(i)
        \/ CheckBalanceStep(i)
        \/ GetAccessStep(i)
        \/ GenerateStep(i)
        \/ DownloadStep(i)
        \/ PurchaseStep(i)
        \/ Retire(i)

Spec == Init /\ [][Next]_vars

\* The call a handler awaits settles and the handler runs up to its next
\* await or to its end.
HandlerStep(i) ==
    \/ CheckBalanceStep(i)
    \/ GetAccessStep(i)
    \/ GenerateStep(i)
    \/ DownloadStep(i)
    \/ PurchaseStep(i)

\* FairSpec: the server process with at most MaxFairInvocations tool calls
\* under way at a time, the others never being sent.
MaxFairInvocations == 1
FairInvocations == {i \in Invocations : i <= MaxFairInvocations}

NextFair ==
    \/ ModuleInitialisation
    \/ \E i \in FairInvocations :
        \/ Dispatch(i)
        \/ HandlerStep(i)
        \/ Retire(i)

\* Every awaited external call eventually returns or fails, and the event
\* loop then resumes the handler that awaits it.  Nothing makes a client
\* send a tool call.
Fairness == \A i \in FairInvocations : WF_vars(HandlerStep(i))

FairSpec == Init /\ [][NextFair]_vars /\ Fairness

SpecOps == Init /\ [][NextOps]_vars

(***************************************************************************)
(* Properties of the tool handlers (Spec).                                 *)
(***************************************************************************)
GenerationTasks == {i \in Invocations : task[i].tool \in GenerationTools}
\* The access grant, the backend call and the download (where the tool
\* downloads) of invocation i all succeeded.
AllSucceeded(i) ==
    /\ task[i].access = "return"
    /\ "generate" \in {task[i].calls[n] : n \in 1..Len(task[i].calls)}
    /\ task[i].result.success
    /\ Truthy(PrimaryUri(task[i].tool, task[i].result))
    /\ Downloads(build, task[i].tool) => task[i].media.k = "return"

\* C1: in a generation tool invocation whose checkBalance resolved false,
\* the handler has ended with the purchase prompt (needsPurchase, the
\* configured plan identifier, not an error) and checkBalance is the only
\* call it made: no access grant, no orderPlan, no generation, no download.
C1_InsufficientEndsInPurchasePrompt ==
    \A i \in GenerationTasks :
        task[i].hasBalance = ReturnBool(FALSE)
        => /\ task[i].pc = "done"
           /\ task[i].response.kind = "returned"
           /\ ~task[i].response.isError
           /\ task[i].response.metadata.needsPurchase
           /\ task[i].response.metadata.planDid = PLAN_DID
           /\ task[i].calls = <<"checkBalance">>

C1_Witness ==
    \E i \in GenerationTasks :
        /\ build = "manager"
        /\ task[i].tool = "text2video"
        /\ task[i].hasBalance = ReturnBool(FALSE)
        /\ task[i].response.metadata.needsPurchase

\* C2: in a generation tool invocation whose checkBalance resolved true,
\* the response never carries needsPurchase, and once the handler has ended
\* with the access grant, the backend call and the download all succeeded,
\* the response is the generated content: one item, not an error, inline
\* or a reference to the generated URI.
C2_SufficientNeverPromptsAndDelivers ==
    \A i \in GenerationTasks :
        task[i].hasBalance = ReturnBool(TRUE)
        => /\ ~task[i].response.metadata.needsPurchase
           /\ task[i].pc # "done" => task[i].response = NoResponse
           /\ (task[i].pc = "done" /\ AllSucceeded(i))
              => /\ task[i].response.kind = "returned"
                 /\ ~task[i].response.isError
                 /\ Len(task[i].response.content) = 1
                 /\ task[i].response.content[1].type \in {"resource", "image"}
                 /\ \/ task[i].response.content[1].inline
                    \/ task[i].response.content[1].uri
                         = PrimaryUri(task[i].tool, task[i].result).s

C2_Witness ==
    \E i \in GenerationTasks :
        /\ build = "manager"
        /\ task[i].tool = "image2image"
        /\ task[i].hasBalance = ReturnBool(TRUE)
        /\ task[i].pc = "done"
        /\ AllSucceeded(i)
        /\ task[i].response.content[1].inline
        /\ task[i].response.content[1].bytes = 2048

\* Invocation i has made the call c.
Called(i, c) == c \in {task[i].calls[n] : n \in 1..Len(task[i].calls)}
\* The response of invocation i is an error the caller sees: the handler's
\* promise rejected, or it returned isError = true.
SurfacedError(i) ==
    \/ task[i].response.kind = "thrown"
    \/ task[i].response.kind = "returned" /\ task[i].response.isError

\* C11: in a generation tool invocation whose download of the artifact
\* failed (the media host did not answer), the handler ends with an error,
\* thrown or returned with isError; it never ends with the reference-only
\* success response.
C11_DownloadFailureSurfaces ==
    \A i \in GenerationTasks :
        task[i].fetched.st = "rejected"
        => /\ task[i].pc = "done"
           /\ SurfacedError(i)

\* C12: in a generation tool invocation whose access-grant retrieval threw
\* (checkBalance had returned true), the handler has ended by throwing or
\* with an isError response, and checkBalance and the grant retrieval are
\* the only calls it made: no VideoService, no backend call, no download.
C12_AccessThrowEndsInError ==
    \A i \in GenerationTasks :
        task[i].access = "throw"
        => /\ task[i].hasBalance = ReturnBool(TRUE)
           /\ task[i].pc = "done"
           /\ SurfacedError(i)
           /\ task[i].calls = <<"checkBalance", "getServiceAccess">>
           /\ ~task[i].videoService.made
           /\ task[i].result = NoResult
           /\ task[i].fetched = NotFetched
           /\ task[i].media = NoMedia

C12_Witness ==
    \E i, j \in GenerationTasks :
        /\ build = "manager"
        /\ task[i].tool = "text2image"
        /\ task[i].access = "throw"
        /\ task[i].response = Thrown(<<"Failed to get service access configuration">>)
        /\ task[j].tool = "image2image"
        /\ task[j].access = "throw"
        /\ task[j].response.kind = "returned"
        /\ task[j].response.isError

\* C13: a generation tool handler ends by throwing only if the access-grant
\* retrieval threw or the download threw; an invocation in which neither
\* threw ends in a returned response with a content array of at least one
\* item: after a balance check that failed closed or found too few
\* credits, after a backend status that is not 2xx, a failed fetch or an
\* unreadable body, and after a result without the URI.  (PaymentsManager's
\* checkBalance never throws; where the balance check is the payment
\* library's, the statement is about the invocations in which it returned.)
C13_ThrowsOnlyOnAccessOrDownload ==
    \A i \in GenerationTasks :
        task[i].pc = "done"
        => /\ build = "manager" => task[i].hasBalance.k = "return"
           /\ task[i].response.kind \in {"returned", "thrown"}
           /\ (task[i].response.kind = "thrown" /\ task[i].hasBalance.k = "return")
              => (task[i].access = "throw" \/ task[i].media.k = "throw")
           /\ task[i].response.kind = "returned"
              => Len(task[i].response.content) >= 1
           /\ (task[i].hasBalance = ReturnBool(FALSE)
               \/ (Called(i, "generate")
                   /\ (~task[i].result.success
                       \/ ~Truthy(PrimaryUri(task[i].tool, task[i].result)))))
              => task[i].response.kind = "returned"

C13_Witness ==
    \E i, j \in GenerationTasks :
        /\ build = "manager"
        /\ task[i].tool = "text2video"
        /\ task[i].pc = "done"
        /\ task[i].result.message = Str(<<"HTTP error! status: ", "500">>)
        /\ task[i].response.kind = "returned"
        /\ task[j].tool = "text2video"
        /\ task[j].pc = "done"
        /\ task[j].media.k = "throw"
        /\ task[j].response.kind = "thrown"

\* C14: in a generation tool invocation whose backend call gave a result
\* with success = false or without the URI, the handler has ended with
\* isError = true and one text item: the tool's prefix followed by the
\* result's message, or by "No image URL returned" / "No video URL
\* returned" when there is no message (so the status of a 500 answer is in
\* the text); no download was attempted.
C14_BackendFailureIsToolError ==
    \A i \in GenerationTasks :
        (/\ Called(i, "generate")
         /\ \/ ~task[i].result.success
            \/ ~Truthy(PrimaryUri(task[i].tool, task[i].result)))
        => /\ task[i].pc = "done"
           /\ task[i].response.kind = "returned"
           /\ task[i].response.isError
           /\ Len(task[i].response.content) = 1
           /\ task[i].response.content[1].type = "text"
           /\ task[i].response.content[1].text
                = ErrorPrefix(task[i].tool)
                  \o (IF Truthy(task[i].result.message) THEN task[i].result.message.s
                      ELSE NoUrlText(task[i].tool))
           /\ task[i].result.message = Str(<<"HTTP error! status: ", "500">>)
              => task[i].response.content[1].text[3] = "500"
           /\ ~Called(i, "download")
           /\ task[i].fetched = NotFetched

C14_Witness ==
    \E i, j \in GenerationTasks :
        /\ task[i].tool = "text2image"
        /\ task[i].response
             = Returned(TRUE, <<TextItem(<<"Error generating image: ",
                                           "HTTP error! status: ", "500">>)>>,
                        NoMetadata)
        /\ task[j].tool = "text2video"
        /\ task[j].result.success
        /\ task[j].response
             = Returned(TRUE, <<TextItem(<<"Error generating video: ",
                                           "No video URL returned">>)>>,
                        NoMetadata)

\* C15: in a generation tool invocation whose backend call gave a result
\* with the URI and whose download was answered, the response is one content
\* item that carries the URI, and it carries inline base64 content exactly
\* when the fetched artifact has at most 1,048,576 bytes; the inline content
\* encodes all the bytes fetched.
C15_InlineIffWithinThreshold ==
    \A i \in GenerationTasks :
        (/\ task[i].pc = "done"
         /\ Called(i, "generate")
         /\ task[i].result.success
         /\ Truthy(PrimaryUri(task[i].tool, task[i].result))
         /\ task[i].fetched.st = "resolved")
        => /\ task[i].response.kind = "returned"
           /\ ~task[i].response.isError
           /\ Len(task[i].response.content) = 1
           /\ task[i].response.content[1].uri
                = PrimaryUri(task[i].tool, task[i].result).s
           /\ task[i].response.content[1].inline
              <=> task[i].fetched.byteLength <= OneMiB
           /\ task[i].response.content[1].inline
              => task[i].response.content[1].bytes = task[i].fetched.byteLength

\* The mimeType the interface gives each tool.
FixedMimeType(tool) == IF tool = "text2video" THEN "video/mp4" ELSE "image/jpeg"

\* C16: every content item of a generation tool's response that bears
\* content (inline or by reference) has mimeType image/jpeg for text2image
\* and image2image and video/mp4 for text2video, in both entry points.
C16_MimeTypeFixedPerTool ==
    \A i \in GenerationTasks :
        \A n \in 1..Len(task[i].response.content) :
            task[i].response.content[n].type \in {"resource", "image"}
            => task[i].response.content[n].mimeType = FixedMimeType(task[i].tool)

\* The external calls of a generation handler, in the order of its code.
CallOrder == <<"checkBalance", "getServiceAccess", "generate", "download">>

\* C20: the calls a generation tool invocation has made are an initial part
\* of checkBalance, getServiceAccess, generate, download, each at most
\* once; the backend was called only after checkBalance returned true and
\* the grant was obtained in that invocation, and the download was started
\* only after a result with success = true and the URI.
C20_CallsInOrderAtMostOnce ==
    \A i \in GenerationTasks :
        /\ Len(task[i].calls) <= Len(CallOrder)
        /\ task[i].calls = SubSeq(CallOrder, 1, Len(task[i].calls))
        /\ Called(i, "generate")
           => (task[i].hasBalance = ReturnBool(TRUE) /\ task[i].access = "return")
        /\ Called(i, "download")
           => /\ task[i].result.success
              /\ Truthy(PrimaryUri(task[i].tool, task[i].result))
        /\ task[i].fetched.st # "none" => Called(i, "download")

C20_Witness ==
    \E i, j \in GenerationTasks :
        /\ build = "manager"
        /\ task[i].tool = "text2video"
        /\ task[i].pc = "done"
        /\ task[i].calls = CallOrder
        /\ task[i].result.url = Str(VideoUri)
        /\ task[j].tool = "text2image"
        /\ task[j].pc = "generate"
        /\ task[j].calls = <<"checkBalance", "getServiceAccess">>

\* C21: whatever the interleaving, the POST a generation tool invocation
\* has in flight carries the base URI and the bearer token of the grant that
\* invocation's own getServiceAccess call returned, through a VideoService
\* made of that grant; an invocation that has not obtained a grant of its
\* own holds no VideoService and has sent nothing, whatever grants the
\* other invocations hold.
C21_RequestCarriesOwnGrant ==
    \A i \in GenerationTasks :
        /\ task[i].request.sent
           => /\ task[i].pc = "generate"
              /\ task[i].access = "return"
              /\ task[i].request.bearer = task[i].grant.accessToken
              /\ task[i].request.url
                   = task[i].grant.neverminedProxyUri
                     \o <<"/api/generate/", task[i].tool>>
        /\ task[i].videoService.made
           => /\ task[i].access = "return"
              /\ task[i].videoService
                   = VideoService(task[i].grant.neverminedProxyUri,
                                  task[i].grant.accessToken)
        /\ task[i].pc = "generate" => task[i].request.sent
        /\ task[i].access # "return"
           => /\ task[i].grant = NoGrant
              /\ ~task[i].videoService.made
              /\ ~task[i].request.sent

C21_Witness ==
    \E i, j \in GenerationTasks :
        /\ build = "manager"
        /\ task[i].pc = "generate"
        /\ task[i].grant.accessToken = <<"t1">>
        /\ task[i].request.bearer = <<"t1">>
        /\ task[j].pc = "generate"
        /\ task[j].grant.accessToken = <<"t2">>
        /\ task[j].request.bearer = <<"t2">>

\* The constructor of PaymentsManager has run and left no instance.
ConstructionFailed == manager.constructions > 0 /\ manager.instance = 0

\* C23: a failed construction of the PaymentsManager singleton is fatal.
\* The step in which it fails leaves the process exited with no instance
\* and no invocation under way, and nothing happens after it: no call is
\* served and no broker comes into being until the process is started anew.
C23_FailedConstructionIsFatal ==
    [][/\ ~ConstructionFailed
       /\ ConstructionFailed'
            => /\ process' = "exited"
               /\ \A i \in Invocations : task'[i] = IdleTask]_vars

\* The manager build has ended at start-up because Payments.getInstance threw.
C23_Witness ==
    /\ build = "manager"
    /\ process = "exited"
    /\ manager = [instance |-> 0, payments |-> 0, constructions |-> 1]
    /\ \A i \in Invocations : task[i] = IdleTask

\* What the collaborators of invocation i answered, in the order they were
\* asked: the balance check, the access grant, the backend (whether it
\* reported success and gave the tool's URI field) and the media host, with
\* what downloadAsBase64 made of its answer.
CollaboratorOutcomes(i) ==
    [hasBalance |-> task[i].hasBalance,
     access |-> task[i].access,
     calls |-> task[i].calls,
     success |-> task[i].result.success,
     hasUri |-> Truthy(PrimaryUri(task[i].tool, task[i].result)),
     fetched |-> task[i].fetched,
     media |-> task[i].media]

\* The kind of outcome a handler ended with.
OutcomeKind(r) ==
    IF r.kind = "thrown" THEN "thrown error"
    ELSE IF r.metadata.needsPurchase THEN "purchase prompt"
    ELSE IF r.isError THEN "tool error response"
    ELSE IF \E n \in 1..Len(r.content) : r.content[n].inline THEN "inline content"
    ELSE "reference content"

\* C24 (as stated): two finished invocations of generation tools whose
\* collaborators answered alike ended with the same kind of outcome,
\* whichever tools they are.
C24_SameOutcomesSameKind ==
    \A i \in GenerationTasks, j \in GenerationTasks :
        (/\ task[i].pc = "done"
         /\ task[j].pc = "done"
         /\ CollaboratorOutcomes(i) = CollaboratorOutcomes(j))
        => OutcomeKind(task[i].response) = OutcomeKind(task[j].response)

\* The response is of exactly one of the five kinds of outcome.
ExactlyOneOutcome(r) ==
    LET thrown == r.kind = "thrown"
        prompt == r.kind = "returned" /\ r.metadata.needsPurchase
        error == r.kind = "returned" /\ r.isError
        inline == /\ r.kind = "returned"
                  /\ ~r.isError
                  /\ ~r.metadata.needsPurchase
                  /\ \E n \in 1..Len(r.content) : r.content[n].inline
        reference == /\ r.kind = "returned"
                     /\ ~r.isError
                     /\ ~r.metadata.needsPurchase
                     /\ Len(r.content) > 0
                     /\ \A n \in 1..Len(r.content) :
                           r.content[n].type = "resource" /\ ~r.content[n].inline
    IN  Cardinality({k \in {<<1, thrown>>, <<2, prompt>>, <<3, error>>,
                            <<4, inline>>, <<5, reference>>} : k[2]}) = 1

\* C26: when every awaited call settles, every invocation of a generation
\* tool comes to its end, with exactly one of purchase prompt, tool error
\* response, thrown error, inline content and reference-only content; the
\* handlers change nothing of the process outside their invocation, and an
\* invocation that has ended leaves its slot as it was before it began.
C26_EveryInvocationTerminates ==
    /\ \A i \in FairInvocations :
          (task[i].tool \in GenerationTools /\ task[i].pc # "done")
          ~> (task[i].pc = "done" /\ ExactlyOneOutcome(task[i].response))
    /\ [][/\ process = "running" => UNCHANGED <<build, process, manager>>
          /\ \A i \in Invocations :
                (task[i].pc = "done" /\ task'[i] # task[i]) => task'[i] = IdleTask]_vars

\* An invocation of text2video has gone through all four awaited calls and
\* ended with inline content.
C26_Witness ==
    /\ task[1].tool = "text2video"
    /\ task[1].pc = "done"
    /\ task[1].calls = CallOrder
    /\ ExactlyOneOutcome(task[1].response)
    /\ \E n \in 1..Len(task[1].response.content) : task[1].response.content[n].inline

\* The response is the reference-only item of the handlers of lines 705-991:
\* the URI with the text "... too large to display directly" and no blob.
TooLargeReference(i) ==
    /\ task[i].response.kind = "returned"
    /\ ~task[i].response.isError
    /\ task[i].response.content
         = <<ReferenceItem(PrimaryUri(task[i].tool, task[i].result).s,
                           IF task[i].tool = "text2video"
                           THEN <<"Video too large to display directly">>
                           ELSE <<"Image too large to display directly">>,
                           IF task[i].tool = "text2video" THEN "video/mp4"
                           ELSE "image/jpeg")>>

\* C27: in the handlers built on PaymentsManager the reference-only response
\* is given exactly when downloadAsBase64 returned null or the empty string,
\* which it does exactly for an artifact of more than 1,048,576 bytes and
\* for one of no bytes: a zero-byte artifact is delivered reference-only,
\* as "too large to display directly".
C27_ReferenceIffFalsy ==
    \A i \in GenerationTasks :
        (build = "manager" /\ task[i].pc = "done")
        => LET falsy == task[i].media.null \/ task[i].media.length = 0
           IN  /\ TooLargeReference(i)
                  <=> (Called(i, "download") /\ task[i].media.k = "return" /\ falsy)
               /\ (Called(i, "download") /\ task[i].media.k = "return")
                  => /\ falsy <=> \/ task[i].fetched.byteLength > OneMiB
                                  \/ task[i].fetched.byteLength = 0
                     /\ task[i].fetched.byteLength = 0 => TooLargeReference(i)

\* text2image has fetched an image of no bytes and answered that it is too
\* large to display directly.
C27_Witness ==
    /\ build = "manager"
    /\ task[1].tool = "text2image"
    /\ task[1].pc = "done"
    /\ task[1].fetched = [st |-> "resolved", byteLength |-> 0]
    /\ task[1].media.k = "return"
    /\ ~task[1].media.null
    /\ task[1].media.length = 0
    /\ TooLargeReference(1)

\* An awaited call of invocation i threw.
RaisedInside(i) ==
    \/ task[i].hasBalance.k = "throw"
    \/ task[i].access = "throw"
    \/ task[i].media.k = "throw"

\* C28: image2image never ends by throwing: when the access-grant retrieval
\* or the download throws inside it, it returns a response with isError.
\* text2image and text2video end by throwing exactly when one of their
\* awaited calls threw.
C28_OnlyImage2ImageCatches ==
    \A i \in GenerationTasks :
        task[i].pc = "done"
        => /\ task[i].tool = "image2image"
              => /\ task[i].response.kind = "returned"
                 /\ RaisedInside(i) => task[i].response.isError
           /\ task[i].tool # "image2image"
              => (task[i].response.kind = "thrown" <=> RaisedInside(i))

\* The download failed in image2image and in text2video: the one returned an
\* error response, the other threw.
C28_Witness ==
    /\ task[1].tool = "image2image"
    /\ task[1].pc = "done"
    /\ task[1].media.k = "throw"
    /\ task[1].response.kind = "returned"
    /\ task[1].response.isError
    /\ task[2].tool = "text2video"
    /\ task[2].pc = "done"
    /\ task[2].media.k = "throw"
    /\ task[2].response.kind = "thrown"

PurchaseTasks == {i \in Invocations : task[i].tool = "purchase_plan"}
PurchaseErrorPrefixes == {"Error purchasing plan: ", "Error in plan purchase: "}

\* C17: a purchase_plan invocation makes one call, orderPlan with the
\* planDid it was given, and no balance check, grant retrieval, backend
\* call or download; it never throws; it returns one text item, with
\* isError = true and an error text exactly when the purchase threw or its
\* result has success = false, and a confirmation text otherwise.
C17_PurchasePlanIsOneOrderPlanCall ==
    \A i \in PurchaseTasks :
        /\ task[i].calls \in {<<>>, <<"orderPlan">>}
        /\ task[i].hasBalance = NoBalance
        /\ task[i].access = "none"
        /\ task[i].result = NoResult
        /\ task[i].fetched = NotFetched
        /\ task[i].pc = "done"
           => /\ task[i].calls = <<"orderPlan">>
              /\ task[i].purchase.planDid = task[i].planDid
              /\ task[i].response.kind = "returned"
              /\ Len(task[i].response.content) = 1
              /\ task[i].response.content[1].type = "text"
              /\ task[i].response.isError
                 <=> (task[i].purchase.k = "throw" \/ ~task[i].purchase.success)
              /\ task[i].response.isError
                 <=> task[i].response.content[1].text[1] \in PurchaseErrorPrefixes

C17_Witness ==
    \E i, j \in PurchaseTasks :
        /\ build = "manager"
        /\ task[i].planDid = "did:nv:other"
        /\ task[i].purchase = [planDid |-> "did:nv:other", k |-> "return",
                               success |-> FALSE]
        /\ task[i].response
             = Returned(TRUE, <<TextItem(<<"Error purchasing plan: ", "Network Error">>)>>,
                        NoMetadata)
        /\ task[j].purchase.success
        /\ task[j].response
             = Returned(FALSE, <<TextItem(<<"Plan ordered successfully. Agreement ID: ",
                                            "0xa1">>)>>,
                        NoMetadata)

(***************************************************************************)
(* Properties of the operations (SpecOps).                                 *)
(***************************************************************************)
\* The balance answer is one Number() turns into NaN, or none at all.
BalanceUnreadable(a) ==
    a.st = "resolved" /\ (a.nullish \/ a.balance.t \in {"undefined", "text"})
\* The answer is not what the payment service documents: no object, or a
\* balance that is no number.
BalanceMalformed(a) ==
    a.st = "resolved" /\ (a.nullish \/ a.balance.t \in {"undefined", "null", "text"})
DDOMalformed(d) == d.st = "resolved" /\ d.nullish

C4_TrueIffBalanceAtLeastRequired ==
    (/\ call.op = "checkBalance"
     /\ call.answer.st = "resolved" /\ ~call.answer.nullish
     /\ call.answer.balance.t \in {"number", "digits"}
     /\ call.ddo.st = "resolved")
    => LET required == IF call.ddo.nullish
                          \/ call.ddo.minCreditsRequired.t = "undefined"
                       THEN 0
                       ELSE call.ddo.minCreditsRequired.n
       IN  outcome = ReturnBool(call.answer.balance.n >= required)

C4_Witness ==
    /\ call.op = "checkBalance"
    /\ call.answer.st = "resolved" /\ ~call.answer.nullish
    /\ call.answer.balance = Num(0)
    /\ call.ddo.st = "resolved" /\ ~call.ddo.nullish
    /\ call.ddo.minCreditsRequired = NumUndefined
    /\ outcome = ReturnBool(TRUE)

\* C5: orderPlan never throws; a rejected purchase gives success = false
\* with the exception's message, a missing result or one whose success is
\* falsy gives success = false with "Failed to create order", and success
\* = true is returned only for a result whose success is truthy.
C5_OrderPlanNeverThrows ==
    call.op = "orderPlan"
    => /\ outcome.k = "return"
       /\ call.answer.st = "rejected"
          => (~outcome.success /\ outcome.message = call.answer.err)
       /\ (call.answer.st = "resolved" /\ (call.answer.nullish \/ ~call.answer.success))
          => (~outcome.success /\ outcome.message = <<"Failed to create order">>)
       /\ outcome.success
          <=> (call.answer.st = "resolved" /\ ~call.answer.nullish /\ call.answer.success)

C5_Witness ==
    /\ call.op = "orderPlan"
    /\ call.answer.st = "rejected"
    /\ call.answer.err = <<"Network Error">>
    /\ outcome = ReturnOrder(FALSE, <<"Network Error">>)

\* C6: getServiceAccess throws when the request fails, the response is
\* missing or its access token is absent or empty, and a grant it returns
\* has a non-empty token; getVideoService then throws too and constructs
\* no VideoService, and a VideoService it returns holds a non-empty token.
C6_AccessIsFailHard ==
    LET failed == \/ call.answer.st = "rejected"
                  \/ call.answer.nullish
                  \/ ~Truthy(call.answer.accessToken)
    IN  /\ call.op = "getServiceAccess"
           => /\ failed => outcome.k = "throw"
              /\ outcome.k = "return"
                 => /\ outcome.grant.accessToken # <<>>
                    /\ outcome.grant.accessToken = call.answer.accessToken.s
        /\ call.op = "getVideoService"
           => /\ failed => (outcome.k = "throw" /\ ~outcome.service.made)
              /\ outcome.k = "return"
                 => /\ outcome.service.made
                    /\ outcome.service.accessToken # <<>>
                    /\ outcome.service.accessToken = call.answer.accessToken.s

C6_Witness ==
    /\ call.op = "getVideoService"
    /\ call.answer.st = "resolved"
    /\ ~call.answer.nullish
    /\ call.answer.accessToken = Str(<<>>)
    /\ call.answer.neverminedProxyUri.def
    /\ outcome.k = "throw"
    /\ ~outcome.service.made

GenerateOps == {"generateText2Image", "generateImage2Image", "generateText2Video"}

\* C7: the three VideoService operations never throw; a status that is not
\* 2xx gives success = false with "HTTP error! status: <code>", and a failed
\* fetch or an unreadable body gives success = false with the exception's
\* text.
C7_GenerateNeverThrows ==
    call.op \in GenerateOps
    => /\ outcome.k = "return"
       /\ (call.answer.st = "resolved" /\ ~(call.answer.status \in 200..299))
          => /\ ~outcome.res.success
             /\ outcome.res.message
                  = Str(<<"HTTP error! status: ", ToString(call.answer.status)>>)
       /\ call.answer.st = "rejected"
          => (~outcome.res.success /\ outcome.res.message = Str(call.answer.err))
       /\ (call.answer.st = "resolved" /\ call.answer.status \in 200..299
           /\ call.answer.json # "object")
          => (~outcome.res.success /\ Truthy(outcome.res.message))

C7_Witness ==
    /\ call.op = "generateText2Video"
    /\ call.answer.st = "resolved"
    /\ call.answer.status = 500
    /\ outcome.res = MediaGenerationResponse(FALSE, Str(<<"HTTP error! status: ", "500">>),
                                             Undefined, Undefined)

\* C8: a result with success = false carries a message, and a result with
\* success = true carries the primary URI (imageUrl, or url for video).
C8_ResultCarriesMessageOrUri ==
    (call.op \in GenerateOps /\ outcome.k = "return")
    => /\ ~outcome.res.success => outcome.res.message.def
       /\ outcome.res.success
          => IF call.op = "generateText2Video" THEN outcome.res.url.def
             ELSE outcome.res.imageUrl.def

DownloadOps == {"downloadAsBase64", "downloadAsBase64Mcp"}

\* C9: in both implementations of downloadAsBase64, a fetched artifact of
\* more than 1,048,576 bytes gives null and any other gives the base64
\* encoding of the whole buffer, so that inline content never encodes more
\* than 1 MiB, whatever the content-length header says.
C9_InlineDecidedByByteLength ==
    (call.op \in DownloadOps /\ call.answer.st = "resolved")
    => /\ outcome.k = "return"
       /\ call.answer.byteLength > OneMiB => outcome.null
       /\ call.answer.byteLength <= OneMiB
          => (~outcome.null /\ outcome.bytes = call.answer.byteLength)
       /\ ~outcome.null => outcome.bytes <= OneMiB

Base64Sextet(c) == CHOOSE k \in 0..63 : Base64Alphabet[k + 1] = c
FromBase64Group(c) ==
    LET s1 == Base64Sextet(c[1])
        s2 == Base64Sextet(c[2])
    IN  IF c[3] = "=" THEN <<s1 * 4 + s2 \div 16>>
        ELSE LET s3 == Base64Sextet(c[3])
             IN  IF c[4] = "="
                 THEN <<s1 * 4 + s2 \div 16, (s2 % 16) * 16 + s3 \div 4>>
                 ELSE <<s1 * 4 + s2 \div 16, (s2 % 16) * 16 + s3 \div 4,
                        (s3 % 4) * 64 + Base64Sextet(c[4])>>
RECURSIVE FromBase64(_)
FromBase64(text) ==
    IF Len(text) < 4 THEN <<>>
    ELSE FromBase64Group(SubSeq(text, 1, 4)) \o FromBase64(SubSeq(text, 5, Len(text)))

\* C19: inline content returned by downloadAsBase64 encodes the whole
\* buffer fetched, and decoding it gives back the fetched bytes: the same
\* length and the same byte at every position.
C19_Base64RoundTrip ==
    (call.op \in DownloadOps /\ outcome.k = "return" /\ ~outcome.null)
    => /\ outcome.bytes = call.answer.byteLength
       /\ outcome.length = Base64Length(call.answer.byteLength)
       /\ "data" \in DOMAIN call
          => /\ Len(outcome.text) = outcome.length
             /\ Len(FromBase64(outcome.text)) = Len(call.data)
             /\ \A n \in 1..Len(call.data) : FromBase64(outcome.text)[n] = call.data[n]

C19_Witness ==
    /\ call.op = "downloadAsBase64"
    /\ "data" \in DOMAIN call
    /\ call.data = <<255, 0, 128, 1>>
    /\ outcome.text = <<"/", "w", "C", "A", "A", "Q", "=", "=">>
    /\ FromBase64(outcome.text) = <<255, 0, 128, 1>>

\* C22: the payment broker is a lazily initialised singleton.  Once it has
\* been constructed the constructor has run exactly once and never runs
\* again, the instance reference and its client handle are the ones that
\* construction made, and every call of getInstance returns that same
\* instance and changes nothing.
C22_SingletonConstructedOnce ==
    /\ manager.instance # 0
        => /\ manager.constructions = 1
           /\ manager.instance = 1
           /\ manager.payments = 1
    /\ call.op = "getInstance"
        => /\ outcome.k = "return"
           /\ outcome.instance = call.before.instance
           /\ manager = call.before

\* getInstance called again in the running process, at a moment when a
\* construction would fail: the instance made at start-up is returned.
C22_Witness ==
    /\ process = "running"
    /\ call.op = "getInstance"
    /\ ~call.ok
    /\ outcome.k = "return"
    /\ outcome.instance = 1
    /\ manager = [instance |-> 1, payments |-> 1, constructions |-> 1]

\* s.startsWith(prefix)
StartsWith(s, prefix) ==
    Len(prefix) <= Len(s) /\ SubSeq(s, 1, Len(prefix)) = prefix

\* C25: no access grant returned by getServiceAccess has a base URI with the
\* scheme https.  For a proxy URI that starts with "https" the URI returned
\* starts with "http:", not with "https", and is the original with that
\* leading "https" alone turned into "http"; the access token returned is
\* the one the payment service gave.
C25_GrantUsesUnencryptedScheme ==
    (call.op = "getServiceAccess" /\ outcome.k = "return")
    => LET original == call.answer.neverminedProxyUri.s
           returned == outcome.grant.neverminedProxyUri
       IN  /\ ~StartsWith(returned, HTTPS)
           /\ StartsWith(original, HTTPS)
              => /\ StartsWith(returned, HTTP \o <<":">>)
                 /\ returned = HTTP \o SubSeq(original, Len(HTTPS) + 1, Len(original))
           /\ outcome.grant.accessToken = call.answer.accessToken.s

\* The grant for the proxy URI https://https: only the scheme is rewritten.
C25_Witness ==
    /\ call.op = "getServiceAccess"
    /\ call.answer.neverminedProxyUri = Str(HTTPS \o <<":", "/", "/">> \o HTTPS)
    /\ call.answer.accessToken = Str(<<"t2">>)
    /\ outcome.k = "return"
    /\ outcome.grant = [neverminedProxyUri |-> HTTP \o <<":", "/", "/">> \o HTTPS,
                        accessToken |-> <<"t2">>]

====
